---- MODULE Spec2Model ----
(***************************************************************************)
(* Model of example05/main.c: the warp-aligned padded length of a real FFT *)
(* buffer (roundUpToNearest and the N_pad expression of main), and the     *)
(* host/device pipeline of main: malloc and fill of the host buffer,       *)
(* blocking write, forward transform, the "mult" scaling kernel, read back.*)
(*                                                                         *)
(* Two specifications share the definitions:                               *)
(*   SpecCalc  the sizing arithmetic as a pure function, over a range of   *)
(*             logical lengths and group widths that includes the values   *)
(*             main uses (N = 128, width 32) and the non-positive ones;    *)
(*   Spec      the pipeline of main for small positive N and group width,  *)
(*             with the command queue and the kernel's workers interleaved.*)
(* Doubles are modelled by integers (the kernel only multiplies by 2 and   *)
(* 4).  int/unsigned arithmetic is modelled inside the range where it does *)
(* not wrap.                                                               *)
(***************************************************************************)
EXTENDS Integers, Sequences, FiniteSets, TLC

VARIABLES pc, N, localSize, N_pad, globalSize, h_v, i, d_v, queue, running,
          done, wpc, wtmp, acc, d_pre, err, out, call

vars == <<pc, N, localSize, N_pad, globalSize, h_v, i, d_v, queue, running,
          done, wpc, wtmp, acc, d_pre, err, out, call>>

\* ---- bounds --------------------------------------------------------------
MaxN == 2
MaxGroupWidth == 2
MaxVal == 1
MaxCalcN == 12
MaxCalcG == 5
MaxX == 12

\* ---- program constants ---------------------------------------------------
SrcN == 128
WarpSize == 32

\* values an uninitialised or transformed double can take in the model
Vals == 0..MaxVal

\* inputs of the pure-function specification
CalcNs == (0..MaxCalcN) \cup {30, 62, SrcN}
CalcGs == ((-1)..MaxCalcG) \cup {WarpSize}
CalcXs == (-MaxX)..MaxX

\* ---- the sizing arithmetic -----------------------------------------------
Abs(a) == IF a < 0 THEN -a ELSE a

\* C's % : truncated division, the remainder has the sign of the dividend
CRem(x, n) == IF x >= 0 THEN x % Abs(n) ELSE -((-x) % Abs(n))

roundUpWithRemAlwaysAdds(x, n, x_rem) == x + (n - x_rem)

roundUpWithRemWrongSign(x, n, x_rem) == IF x_rem = 0 THEN x ELSE x + x_rem

\* lines 23-26, given the remainder of line 22
roundUpWithRem(x, n, x_rem) == IF x_rem = 0 THEN x ELSE x + (n - x_rem)

roundUpToNearest(x, n) == roundUpWithRem(x, n, CRem(x, n))

\* x % 0 is undefined: the build either traps (x86 idiv) or leaves some
\* remainder (a quotient of 0 leaves x)
DivZeroRems(x) == {0, x}

roundUpOutcomes(x, n) ==
    IF n = 0
    THEN {[status |-> "trap", result |-> 0]}
         \cup {[status |-> "ok", result |-> roundUpWithRem(x, n, r)] : r \in DivZeroRems(x)}
    ELSE {[status |-> "ok", result |-> roundUpToNearest(x, n)]}

\* unsigned division by 2
halfOf(n) == n \div 2

paddedLengthNoHalving(n, groupWidth) == roundUpToNearest(n + 2, groupWidth)

\* line 49 with the literal 32 as a parameter
paddedLength(n, groupWidth) == 2 * roundUpToNearest(halfOf(n + 2), groupWidth)

paddedOutcomes(n, groupWidth) ==
    IF groupWidth = 0
    THEN {[status |-> o.status, result |-> 2 * o.result] :
            o \in roundUpOutcomes(halfOf(n + 2), groupWidth)}
    ELSE {[status |-> "ok", result |-> paddedLength(n, groupWidth)]}

\* ---- the pure-function specification ------------------------------------
NoCall == [fn |-> "none", x |-> 0, n |-> 0, status |-> "none", result |-> 0]

NoBuf == <<>>

InitCalc ==
    /\ pc = "calc"
    /\ call = NoCall
    /\ N = 0 /\ localSize = 0 /\ N_pad = 0 /\ globalSize = 0
    /\ h_v = NoBuf /\ i = 0 /\ d_v = NoBuf
    /\ queue = <<>> /\ running = {} /\ done = {}
    /\ wpc = <<>> /\ wtmp = <<>> /\ acc = {} /\ d_pre = NoBuf
    /\ err = "CL_SUCCESS" /\ out = NoBuf

\* N_pad = 2*roundUpToNearest((N+2)/2, groupWidth) for an unsigned N
PaddedCall ==
    /\ pc = "calc"
    /\ \E n \in CalcNs, g \in CalcGs :
         \E o \in paddedOutcomes(n, g) :
            call' = [fn |-> "padded", x |-> n, n |-> g,
                     status |-> o.status, result |-> o.result]
    /\ pc' = "returned"
    /\ UNCHANGED <<N, localSize, N_pad, globalSize, h_v, i, d_v, queue, running,
                   done, wpc, wtmp, acc, d_pre, err, out>>

\* roundUpToNearest(x, n) for any int x and n
RoundCall ==
    /\ pc = "calc"
    /\ \E x \in CalcXs, g \in CalcGs :
         \E o \in roundUpOutcomes(x, g) :
            call' = [fn |-> "round", x |-> x, n |-> g,
                     status |-> o.status, result |-> o.result]
    /\ pc' = "returned"
    /\ UNCHANGED <<N, localSize, N_pad, globalSize, h_v, i, d_v, queue, running,
                   done, wpc, wtmp, acc, d_pre, err, out>>

NextCalc == PaddedCall \/ RoundCall

SpecCalc == InitCalc /\ [][NextCalc]_vars

\* ---- the pipeline of main ------------------------------------------------
Init ==
    /\ pc = "size"
    /\ N \in 1..MaxN
    /\ localSize \in 1..MaxGroupWidth
    /\ N_pad = 0 /\ globalSize = 0
    /\ h_v = NoBuf /\ i = 0 /\ d_v = NoBuf
    /\ queue = <<>> /\ running = {} /\ done = {}
    /\ wpc = <<>> /\ wtmp = <<>> /\ acc = {} /\ d_pre = NoBuf
    /\ err = "CL_SUCCESS" /\ out = NoBuf
    /\ call = NoCall

Indices == 0..(N_pad - 1)
Workers == 0..(globalSize - 1)

\* lines 48-50
Size ==
    /\ pc = "size"
    /\ N_pad' = paddedLength(N, localSize)
    /\ pc' = "malloc"
    /\ UNCHANGED <<N, localSize, globalSize, h_v, i, d_v, queue, running, done,
                   wpc, wtmp, acc, d_pre, err, out, call>>

\* line 70: malloc leaves the N_pad doubles indeterminate
Malloc ==
    /\ pc = "malloc"
    /\ h_v' \in [Indices -> Vals]
    /\ i' = 0
    /\ pc' = "fill"
    /\ UNCHANGED <<N, localSize, N_pad, globalSize, d_v, queue, running, done,
                   wpc, wtmp, acc, d_pre, err, out, call>>

\* lines 74-76, one iteration
Fill ==
    /\ pc = "fill"
    /\ i < N
    /\ h_v' = [h_v EXCEPT ![i] = i]
    /\ i' = i + 1
    /\ UNCHANGED <<pc, N, localSize, N_pad, globalSize, d_v, queue, running, done,
                   wpc, wtmp, acc, d_pre, err, out, call>>

\* loop exit and lines 79-81
Dims ==
    /\ pc = "fill"
    /\ ~(i < N)
    /\ globalSize' = halfOf(N_pad)
    /\ wpc' = [w \in 0..(halfOf(N_pad) - 1) |-> "idle"]
    /\ wtmp' = [w \in 0..(halfOf(N_pad) - 1) |-> 0]
    /\ pc' = "enq_write"
    /\ UNCHANGED <<N, localSize, N_pad, h_v, i, d_v, queue, running, done,
                   acc, d_pre, err, out, call>>

\* line 108, the call: the write command enters the queue
EnqueueWriteBuffer ==
    /\ pc = "enq_write"
    /\ queue' = Append(queue, "write")
    /\ pc' = "wait_write"
    /\ UNCHANGED <<N, localSize, N_pad, globalSize, h_v, i, d_v, running, done,
                   wpc, wtmp, acc, d_pre, err, out, call>>

\* line 108, CL_TRUE: the call returns when the write has completed
WriteReturns ==
    /\ pc = "wait_write"
    /\ "write" \in done
    /\ pc' = "enq_fft"
    /\ UNCHANGED <<N, localSize, N_pad, globalSize, h_v, i, d_v, queue, running, done,
                   wpc, wtmp, acc, d_pre, err, out, call>>

\* line 128
EnqueueTransform ==
    /\ pc = "enq_fft"
    /\ queue' = Append(queue, "fft")
    /\ pc' = "finish129"
    /\ UNCHANGED <<N, localSize, N_pad, globalSize, h_v, i, d_v, running, done,
                   wpc, wtmp, acc, d_pre, err, out, call>>

QueueDrainedOnly == queue = <<>>

\* clFinish returns once every queued command has completed
QueueFinished == queue = <<>> /\ running = {}

clFinish(from, to) ==
    /\ pc = from
    /\ QueueFinished
    /\ pc' = to
    /\ UNCHANGED <<N, localSize, N_pad, globalSize, h_v, i, d_v, queue, running, done,
                   wpc, wtmp, acc, d_pre, err, out, call>>

Finish129 == clFinish("finish129", "enq_kernel")

\* line 131: the dispatch is refused unless the global size is a whole
\* number of work-groups
EnqueueNDRangeKernel ==
    /\ pc = "enq_kernel"
    /\ IF localSize > 0 /\ globalSize % localSize = 0
       THEN queue' = Append(queue, "kernel") /\ err' = "CL_SUCCESS"
       ELSE queue' = queue /\ err' = "CL_INVALID_WORK_GROUP_SIZE"
    /\ pc' = "finish132"
    /\ UNCHANGED <<N, localSize, N_pad, globalSize, h_v, i, d_v, running, done,
                   wpc, wtmp, acc, d_pre, out, call>>

Finish132 == clFinish("finish132", "finish135")

Finish135 == clFinish("finish135", "enq_read")

\* line 138, the call
EnqueueReadBuffer ==
    /\ pc = "enq_read"
    /\ queue' = Append(queue, "read")
    /\ pc' = "wait_read"
    /\ UNCHANGED <<N, localSize, N_pad, globalSize, h_v, i, d_v, running, done,
                   wpc, wtmp, acc, d_pre, err, out, call>>

\* line 138, CL_TRUE
ReadReturns ==
    /\ pc = "wait_read"
    /\ "read" \in done
    /\ pc' = "finish139"
    /\ UNCHANGED <<N, localSize, N_pad, globalSize, h_v, i, d_v, queue, running, done,
                   wpc, wtmp, acc, d_pre, err, out, call>>

Finish139 == clFinish("finish139", "print")

\* lines 141-144
PrintResult ==
    /\ pc = "print"
    /\ out' = [k \in 0..(N - 1) |-> h_v[k]]
    /\ pc' = "release"
    /\ UNCHANGED <<N, localSize, N_pad, globalSize, h_v, i, d_v, queue, running, done,
                   wpc, wtmp, acc, d_pre, err, call>>

\* lines 146-161
Release ==
    /\ pc = "release"
    /\ d_v' = NoBuf
    /\ h_v' = NoBuf
    /\ pc' = "done"
    /\ UNCHANGED <<N, localSize, N_pad, globalSize, i, queue, running, done,
                   wpc, wtmp, acc, d_pre, err, out, call>>

\* ---- the device: an in-order command queue (line 88, properties 0) --------
\* an in-order queue starts a command only when its predecessor has completed
CanStart == queue # <<>> /\ running = {}

DevStart ==
    /\ CanStart
    /\ running' = running \cup {Head(queue)}
    /\ queue' = Tail(queue)
    /\ IF Head(queue) = "kernel"
       THEN /\ wpc' = [w \in Workers |-> "r_re"]
            /\ d_pre' = d_v
       ELSE UNCHANGED <<wpc, d_pre>>
    /\ UNCHANGED <<pc, N, localSize, N_pad, globalSize, h_v, i, d_v, done,
                   wtmp, acc, err, out, call>>

\* the write of line 108 copies N_bytes from h_v
DevWrite ==
    /\ "write" \in running
    /\ d_v' = h_v
    /\ running' = running \ {"write"}
    /\ done' = done \cup {"write"}
    /\ UNCHANGED <<pc, N, localSize, N_pad, globalSize, h_v, i, queue,
                   wpc, wtmp, acc, d_pre, err, out, call>>

\* a real transform of N samples to Hermitian interleaved, in place, produces
\* N/2 + 1 complex numbers: the first 2*(N/2 + 1) doubles of the buffer
FftOutLen == 2 * (halfOf(N) + 1)

DevTransform ==
    /\ "fft" \in running
    /\ \E f \in [0..(FftOutLen - 1) -> Vals] :
          d_v' = [k \in DOMAIN d_v |-> IF k < FftOutLen THEN f[k] ELSE d_v[k]]
    /\ running' = running \ {"fft"}
    /\ done' = done \cup {"fft"}
    /\ UNCHANGED <<pc, N, localSize, N_pad, globalSize, h_v, i, queue,
                   wpc, wtmp, acc, d_pre, err, out, call>>

\* ---- the kernel "mult", one work-item per id ------------------------------
v_re(id) == 2 * id

v_imSameAsNeighbour(id) == v_re(id) + 2

v_im(id) == v_re(id) + 1

Load(buf, k) == IF k \in DOMAIN buf THEN buf[k] ELSE 0

Store(buf, k, val) == IF k \in DOMAIN buf THEN [buf EXCEPT ![k] = val] ELSE buf

Access(w, k, op) == [w |-> w, idx |-> k, op |-> op]

reScaleForgotten(val) == val

reScale(val) == 2 * val

imScale(val) == 4 * val

\* line 14, the read of v[v_re]
KernelReadRe ==
    /\ "kernel" \in running
    /\ \E w \in Workers :
        /\ wpc[w] = "r_re"
        /\ wtmp' = [wtmp EXCEPT ![w] = Load(d_v, v_re(w))]
        /\ acc' = acc \cup {Access(w, v_re(w), "r")}
        /\ wpc' = [wpc EXCEPT ![w] = "w_re"]
    /\ UNCHANGED <<pc, N, localSize, N_pad, globalSize, h_v, i, d_v, queue, running,
                   done, d_pre, err, out, call>>

\* line 14, the store to v[v_re]
KernelWriteRe ==
    /\ "kernel" \in running
    /\ \E w \in Workers :
        /\ wpc[w] = "w_re"
        /\ d_v' = Store(d_v, v_re(w), reScale(wtmp[w]))
        /\ acc' = acc \cup {Access(w, v_re(w), "w")}
        /\ wpc' = [wpc EXCEPT ![w] = "r_im"]
    /\ UNCHANGED <<pc, N, localSize, N_pad, globalSize, h_v, i, queue, running,
                   done, wtmp, d_pre, err, out, call>>

\* line 15, the read of v[v_im]
KernelReadIm ==
    /\ "kernel" \in running
    /\ \E w \in Workers :
        /\ wpc[w] = "r_im"
        /\ wtmp' = [wtmp EXCEPT ![w] = Load(d_v, v_im(w))]
        /\ acc' = acc \cup {Access(w, v_im(w), "r")}
        /\ wpc' = [wpc EXCEPT ![w] = "w_im"]
    /\ UNCHANGED <<pc, N, localSize, N_pad, globalSize, h_v, i, d_v, queue, running,
                   done, d_pre, err, out, call>>

\* line 15, the store to v[v_im]
KernelWriteIm ==
    /\ "kernel" \in running
    /\ \E w \in Workers :
        /\ wpc[w] = "w_im"
        /\ d_v' = Store(d_v, v_im(w), imScale(wtmp[w]))
        /\ acc' = acc \cup {Access(w, v_im(w), "w")}
        /\ wpc' = [wpc EXCEPT ![w] = "done"]
    /\ UNCHANGED <<pc, N, localSize, N_pad, globalSize, h_v, i, queue, running,
                   done, wtmp, d_pre, err, out, call>>

\* the dispatch completes when every work-item has returned
DevKernelDone ==
    /\ "kernel" \in running
    /\ \A w \in Workers : wpc[w] = "done"
    /\ running' = running \ {"kernel"}
    /\ done' = done \cup {"kernel"}
    /\ UNCHANGED <<pc, N, localSize, N_pad, globalSize, h_v, i, d_v, queue,
                   wpc, wtmp, acc, d_pre, err, out, call>>

\* the read of line 138 copies N_bytes into h_v
DevRead ==
    /\ "read" \in running
    /\ h_v' = d_v
    /\ running' = running \ {"read"}
    /\ done' = done \cup {"read"}
    /\ UNCHANGED <<pc, N, localSize, N_pad, globalSize, i, d_v, queue,
                   wpc, wtmp, acc, d_pre, err, out, call>>

Next ==
    \/ Size \/ Malloc \/ Fill \/ Dims
    \/ EnqueueWriteBuffer \/ WriteReturns
    \/ EnqueueTransform \/ Finish129
    \/ EnqueueNDRangeKernel \/ Finish132 \/ Finish135
    \/ EnqueueReadBuffer \/ ReadReturns \/ Finish139
    \/ PrintResult \/ Release
    \/ DevStart \/ DevWrite \/ DevTransform
    \/ KernelReadRe \/ KernelWriteRe \/ KernelReadIm \/ KernelWriteIm
    \/ DevKernelDone \/ DevRead

Spec == Init /\ [][Next]_vars

\* ---- properties -----------------------------------------------------------
Range(q) == {q[k] : k \in DOMAIN q}

ValidPadded == call.fn = "padded" /\ call.x > 0 /\ call.n > 0

\* C1: for positive N and groupWidth the padded length is at least N + 2
C1_PaddedAtLeastNPlus2 == ValidPadded => call.result >= call.x + 2

\* the algorithm of the specification: half = ceil((N+2)/2), rounded up to a
\* multiple of groupWidth, doubled
CeilHalf(n) == (n + 1) \div 2

SpecPaddedLength(n, g) ==
    LET half == CeilHalf(n + 2)
        rounded == IF half % g = 0 THEN half ELSE half + (g - (half % g))
    IN  2 * rounded

\* C2: for positive N and groupWidth the padded length is the result of the
\* specified algorithm (ceil((N+2)/2), rounded up to a multiple of groupWidth,
\* doubled), and paddedLength(128,32) = 192, (30,32) = 64, (62,32) = 64
C2_PaddedEqualsSpecifiedAlgorithm ==
    ValidPadded =>
        /\ call.result = SpecPaddedLength(call.x, call.n)
        /\ (call.x = 128 /\ call.n = 32) => call.result = 192
        /\ (call.x = 30 /\ call.n = 32) => call.result = 64
        /\ (call.x = 62 /\ call.n = 32) => call.result = 64

\* C3: for positive N and groupWidth the padded length is even and half of it
\* (the global worker count) is a multiple of groupWidth
C3_EvenAndHalfMultipleOfGroupWidth ==
    ValidPadded =>
        /\ call.result % 2 = 0
        /\ halfOf(call.result) % call.n = 0

C3_Witness ==
    /\ ValidPadded
    /\ call.x = SrcN /\ call.n = WarpSize
    /\ call.result = 192

\* C4: a non-positive group width or logical length is rejected with an
\* invalid-argument error instead of a numeric result
C4_NonPositiveRejected ==
    (call.fn = "padded" /\ (call.x <= 0 \/ call.n <= 0)) =>
        call.status = "invalid_argument"

\* C5: when the host buffer is written to the device, element i is the signal
\* value i for i < N and zero for the padding indices N <= i < N_pad
C5_PaddingIsZeroAtWrite ==
    ("write" \in running) =>
        \A k \in Indices : h_v[k] = IF k < N THEN k ELSE 0

\* C6: the stages on the device buffer are strictly ordered and never overlap:
\* the transform is issued and run only after the write has completed, the
\* kernel only after the transform has completed, the read only after every
\* worker of the kernel has completed
C6_StagesStrictlyOrdered ==
    /\ Cardinality(running) <= 1
    /\ ("fft" \in Range(queue) \cup running \cup done) => "write" \in done
    /\ (\/ "kernel" \in Range(queue) \cup running \cup done
        \/ \E w \in Workers : wpc[w] # "idle") => "fft" \in done
    /\ ("read" \in Range(queue) \cup running \cup done) =>
          /\ "kernel" \in done
          /\ \A w \in Workers : wpc[w] = "done"

C6_Witness ==
    /\ "read" \in running
    /\ {"write", "fft", "kernel"} \subseteq done

\* C7: when N + 2 is divisible by 2*groupWidth the padded length is N + 2
C7_NoPaddingWhenAligned ==
    (ValidPadded /\ (call.x + 2) % (2 * call.n) = 0) => call.result = call.x + 2

C7_Witness ==
    /\ ValidPadded
    /\ call.x = 62 /\ call.n = WarpSize
    /\ call.result = 64

\* C8: for x >= 0 and n > 0 roundUpToNearest(x, n) is the smallest multiple of
\* n that is >= x
C8_RoundUpIsSmallestMultiple ==
    (call.fn = "round" /\ call.x >= 0 /\ call.n > 0) =>
        /\ call.result % call.n = 0
        /\ call.result >= call.x
        /\ call.result - call.x < call.n
        /\ (call.x % call.n = 0) => call.result = call.x

C8_Witness ==
    /\ call.fn = "round"
    /\ call.x = 7 /\ call.n = 3
    /\ call.result = 9

C10_ScaledOnce ==
    ("kernel" \in done /\ d_v # NoBuf) =>
        \A j \in 0..(halfOf(N_pad) - 1) :
            /\ d_v[2 * j] = 2 * d_pre[2 * j]
            /\ d_v[2 * j + 1] = 4 * d_pre[2 * j + 1]

C10_Witness ==
    /\ "kernel" \in done
    /\ d_v # NoBuf
    /\ globalSize >= 2
    /\ \A k \in Indices : d_pre[k] # 0

====
